---- MODULE Spec2Model ----
\* Model of the mutation engine (mutate.py) and of the batch harness (driver.py).
\*
\* A syntax tree is a nested record [kind, id, ops, kids]:
\*   kind  the ast class name
\*   id    Name.id, Constant literal text, FunctionDef name ("" otherwise)
\*   ops   the operator / context children of the node, by class name
\*         (BinOp.op, AugAssign.op, Compare.ops, Name.ctx)
\*   kids  the other child nodes in the order of ast.iter_child_nodes
\* A node is identified by its path from the root (the sequence of child
\* positions); id(node) is an address derived injectively from the path.
EXTENDS Integers, Sequences, FiniteSets, TLC

\* ---------------------------------------------------------------- bounds
MaxStmts == 2       \* statements in a generated function body
MaxW == 3           \* distinct values of the index draw
MaxCount == 2       \* largest per-category count fed to the planner alone
MaxMutants == 3     \* mutants in a batch (num_mutants of the harness)
MaxTests == 2       \* tests in the suite (len(tests) of the harness)

\* ---------------------------------------------------------------- state
VARIABLES
    tree,       \* the tree the driver parsed; mutate() receives a deep copy of it
    rng,        \* generator state set by random.seed(i): the draws it will yield
    run,        \* 1 for the first invocation on (tree, seed), 2 for the repeated one
    pc,         \* position inside mutate()
    counter,    \* <<>> or <<the CandidateCounter after pass 1>>
    plan,       \* the plan returned by _choose_plan
    mutator,    \* <<>> or <<the Mutator after pass 2>>
    out,        \* <<>> or <<the tree mutate() returned>>
    prev,       \* <<>> or <<the tree the previous invocation returned>>
    avail,      \* per-category counts handed to _choose_plan
    dpc,        \* position of the harness: "gen", "test", "report", "done"
    di,         \* loop index of the harness
    files,      \* mutants whose file i.py was written
    attempted,  \* <<mutants tried in step 1, mutants tried in step 2>>
    kills,      \* per mutant run to completion: the keys of its tests_killed
    behaviour,                  \* per test, what the last mutant run did when called
    mutant_result,              \* per test, the outcome of the last mutant run
    tests_selectively_killed

engineVars == <<tree, rng, run, pc, counter, plan, mutator, out, prev>>
driverVars == <<dpc, di, files, attempted, kills, behaviour, mutant_result,
               tests_selectively_killed>>
vars == <<tree, rng, run, pc, counter, plan, mutator, out, prev, avail,
          dpc, di, files, attempted, kills, behaviour, mutant_result,
          tests_selectively_killed>>

\* ---------------------------------------------------------------- operator maps
CMP_NEGATION ==
    [o \in {"Eq", "NotEq", "Lt", "LtE", "Gt", "GtE"} |->
        CASE o = "Eq" -> "NotEq"
          [] o = "NotEq" -> "Eq"
          [] o = "Lt" -> "GtE"
          [] o = "LtE" -> "Gt"
          [] o = "Gt" -> "LtE"
          [] o = "GtE" -> "Lt"]

BIN_SWAP ==
    [o \in {"Add", "Sub", "Mult", "FloorDiv"} |->
        CASE o = "Add" -> "Sub"
          [] o = "Sub" -> "Add"
          [] o = "Mult" -> "FloorDiv"
          [] o = "FloorDiv" -> "Mult"]

CALL_SWAP == [n \in {"min", "max"} |-> IF n = "min" THEN "max" ELSE "min"]

Kinds == <<"cmp", "bin", "del", "bool", "call">>

\* ---------------------------------------------------------------- trees
Mk(kind, id, ops, kids) == [kind |-> kind, id |-> id, ops |-> ops, kids |-> kids]

Name(n) == Mk("Name", n, <<"Load">>, <<>>)
Store(n) == Mk("Name", n, <<"Store">>, <<>>)
Const(v) == Mk("Constant", v, <<>>, <<>>)
BinOp(l, op, r) == Mk("BinOp", "", <<op>>, <<l, r>>)
Compare(l, ops, cs) == Mk("Compare", "", ops, <<l>> \o cs)
Call(f, args) == Mk("Call", "", <<>>, <<Name(f)>> \o args)
Assign(targets, v) == Mk("Assign", "", <<>>, targets \o <<v>>)
AnnAssign(t, ann, v) == Mk("AnnAssign", "", <<>>, <<t, ann, v>>)
AugAssign(t, op, v) == Mk("AugAssign", "", <<op>>, <<t, v>>)
ExprStmt(v) == Mk("Expr", "", <<>>, <<v>>)
Return(v) == Mk("Return", "", <<>>, <<v>>)
If(test, body) == Mk("If", "", <<>>, <<test>> \o body)
While(test, body) == Mk("While", "", <<>>, <<test>> \o body)
For(t, it, body) == Mk("For", "", <<>>, <<t, it>> \o body)
Pass == Mk("Pass", "", <<>>, <<>>)
Arguments == Mk("arguments", "", <<>>, <<Mk("arg", "i", <<>>, <<>>), Mk("arg", "j", <<>>, <<>>)>>)
FunctionDef(n, body) == Mk("FunctionDef", n, <<>>, <<Arguments>> \o body)
Module(body) == Mk("Module", "", <<>>, body)

\* The statements the generated function bodies are built from.
Stmts ==
    { AugAssign(Store("i"), "Add", Name("j")),                                   \* i += j
      Assign(<<Store("x")>>, BinOp(BinOp(Name("i"), "Add", Name("j")), "Add", Const("0"))),  \* x = i + j + 0
      Assign(<<Store("x")>>, Call("min", <<Call("max", <<Name("i"), Name("j")>>), Name("j")>>)),  \* x = min(max(i, j), j)
      If(Const("True"), <<If(Const("False"), <<ExprStmt(Call("f", <<Name("i")>>))>>)>>),  \* if True: if False: f(i)
      While(Compare(Name("j"), <<"Gt">>, <<Name("i")>>),
            <<If(Compare(Name("i"), <<"LtE">>, <<Name("j")>>), <<Pass>>)>>),     \* while j > i: if i <= j: pass
      If(Compare(Compare(Name("i"), <<"Lt">>, <<Name("j")>>), <<"Eq">>,
                 <<Compare(Name("j"), <<"In", "Lt">>, <<Name("i"), Name("j")>>)>>),
         <<ExprStmt(Name("i"))>>),                                               \* if (i < j) == (j in i < j): i
      For(Store("x"), Name("j"),
          <<ExprStmt(Call("f", <<Compare(Name("i"), <<"NotEq">>, <<Name("j")>>)>>))>>),  \* for x in j: f(i != j)
      Assign(<<Mk("Subscript", "", <<"Store">>, <<Name("arr"), Name("j")>>)>>,
             BinOp(Name("i"), "Mult", Name("j"))),                               \* arr[j] = i * j
      AnnAssign(Store("x"), Name("int"), BinOp(Name("i"), "Mod", Name("j"))),    \* x: int = i % j
      If(Const("0"), <<Return(Name("i"))>>),                                     \* if 0: return i
      While(Const("True"), <<AugAssign(Store("i"), "FloorDiv", Name("j"))>>),    \* while True: i //= j
      Assign(<<Mk("Tuple", "", <<"Store">>, <<Store("x"), Store("j")>>)>>, Name("i"))  \* x, j = i
    }

Bodies == UNION {[1..n -> Stmts] : n \in 1..MaxStmts}

\* subject.py f05: i += j; j += i; return min(i, j)
F05 ==
    Module(<<FunctionDef("f05",
        << AugAssign(Store("i"), "Add", Name("j")),
           AugAssign(Store("j"), "Add", Name("i")),
           Return(Call("min", <<Name("i"), Name("j")>>)) >>)>>)

Program(body) == Module(<<FunctionDef("f", body)>>)

\* ---------------------------------------------------------------- paths
NoPath == <<0>>

RECURSIVE NodeAt(_, _)
NodeAt(root, path) ==
    IF path = <<>> THEN root ELSE NodeAt(root.kids[Head(path)], Tail(path))

\* id(node): the address of the node object in this run.
Id(base, path) == <<base, path>>

\* ---------------------------------------------------------------- pass 1
NewCounter ==
    [cmp_sites |-> <<>>, cmp_keys |-> {}, bin_sites |-> <<>>, del_sites |-> <<>>,
     bool_sites |-> <<>>, call_sites |-> <<>>, parents |-> {},
     first_def_names |-> {}, seen_any_def |-> {}]

ParentsGet(parents, path) ==
    IF \E e \in parents : e[1] = path
    THEN (CHOOSE e \in parents : e[1] = path)[2]
    ELSE NoPath

RECURSIVE WalkUp(_, _, _)
WalkUp(root, parents, p) ==
    IF p = NoPath THEN FALSE
    ELSE IF NodeAt(root, p).kind \in {"For", "While"} THEN TRUE
    ELSE WalkUp(root, parents, ParentsGet(parents, p))

\* (variant: only the immediate parent is inspected)
is_under_loop_parent(root, c, path) ==
    LET p == ParentsGet(c.parents, path)
    IN p # NoPath /\ NodeAt(root, p).kind \in {"For", "While"}

is_under_loop(root, c, path) == WalkUp(root, c.parents, ParentsGet(c.parents, path))

RECURSIVE collect_targets(_)
collect_targets(t) ==
    IF t.kind = "Name" /\ t.ops = <<"Store">> THEN {t.id}
    ELSE IF t.kind \in {"Tuple", "List"}
    THEN UNION {collect_targets(t.kids[k]) : k \in 1..Len(t.kids)}
    ELSE {}

names_defined_by_assign_stmt(node) ==
    IF node.kind = "Assign"
    THEN UNION {collect_targets(node.kids[k]) : k \in 1..(Len(node.kids) - 1)}
    ELSE IF node.kind \in {"AnnAssign", "AugAssign"}
    THEN collect_targets(node.kids[1])
    ELSE {}

maybe_record_first_defs(c, node) ==
    LET new == names_defined_by_assign_stmt(node) \ c.seen_any_def
    IN [c EXCEPT !.seen_any_def = @ \cup new, !.first_def_names = @ \cup new]

RECURSIVE RecordOps(_, _, _, _, _)
RecordOps(c, base, node, path, i) ==
    IF i > Len(node.ops) THEN c
    ELSE RecordOps(
            IF node.ops[i] \in DOMAIN CMP_NEGATION
            THEN [c EXCEPT !.cmp_sites = Append(@, <<path, i>>),
                           !.cmp_keys = @ \cup {<<Id(base, path), i>>}]
            ELSE c,
            base, node, path, i + 1)

IsBoolConst(n) == n.kind = "Constant" /\ n.id \in {"True", "False"}

CounterRecord(root, base, c, node, path) ==
    CASE node.kind = "Compare" ->
            IF ~is_under_loop(root, c, path) THEN RecordOps(c, base, node, path, 1) ELSE c
      [] node.kind = "BinOp" ->
            IF node.ops[1] \in DOMAIN BIN_SWAP
            THEN [c EXCEPT !.bin_sites = Append(@, <<"binop", path>>)] ELSE c
      [] node.kind = "AugAssign" ->
            LET c1 == IF node.ops[1] \in DOMAIN BIN_SWAP
                      THEN [c EXCEPT !.bin_sites = Append(@, <<"aug", path>>)] ELSE c
                c2 == maybe_record_first_defs(c1, node)
            IN [c2 EXCEPT !.del_sites = Append(@, path)]
      [] node.kind \in {"Assign", "AnnAssign"} ->
            [maybe_record_first_defs(c, node) EXCEPT !.del_sites = Append(@, path)]
      [] node.kind = "Expr" ->
            IF node.kids[1].kind = "Call"
            THEN [c EXCEPT !.del_sites = Append(@, path)] ELSE c
      [] node.kind = "If" ->
            IF IsBoolConst(node.kids[1])
            THEN [c EXCEPT !.bool_sites = Append(@, <<"if", path>>)] ELSE c
      [] node.kind = "While" ->
            IF IsBoolConst(node.kids[1])
            THEN [c EXCEPT !.bool_sites = Append(@, <<"while", path>>)] ELSE c
      [] node.kind = "Call" ->
            IF node.kids[1].kind = "Name" /\ node.kids[1].id \in DOMAIN CALL_SWAP
            THEN [c EXCEPT !.call_sites = Append(@, path)] ELSE c
      [] OTHER -> c

\* NodeVisitor: a node is handled when it is reached and its children follow,
\* in field order.
RECURSIVE PreOrder(_, _)
RECURSIVE PreOrderKids(_, _, _)
PreOrder(n, p) == <<p>> \o PreOrderKids(n, p, 1)
PreOrderKids(n, p, k) ==
    IF k > Len(n.kids) THEN <<>>
    ELSE PreOrder(n.kids[k], Append(p, k)) \o PreOrderKids(n, p, k + 1)

\* One visit of CandidateCounter: visit_X records the sites of the node, then
\* generic_visit registers the node as the parent of its children.
CounterStep(root, base, c, path) ==
    LET node == NodeAt(root, path)
    IN [CounterRecord(root, base, c, node, path) EXCEPT
            !.parents = @ \cup {<<Append(path, k), path>> : k \in 1..Len(node.kids)}]

\* The visits order[lo..hi] in sequence.  They are composed by halves, and the
\* state is read before the visits that follow it, which keeps the evaluation
\* depth logarithmic in the number of nodes.
RECURSIVE CounterVisits(_, _, _, _, _, _)
CounterVisits(root, base, c, order, lo, hi) ==
    IF lo > hi \/ DOMAIN c = {} THEN c
    ELSE IF lo = hi THEN CounterStep(root, base, c, order[lo])
    ELSE LET mid == (lo + hi) \div 2
         IN CounterVisits(root, base, CounterVisits(root, base, c, order, lo, mid),
                          order, mid + 1, hi)

CandidateCounter(t, base) ==
    LET order == PreOrder(t, <<>>)
    IN CounterVisits(t, base, NewCounter, order, 1, Len(order))

\* ---------------------------------------------------------------- planner
EmptyPlan == <<>>

base_weights == [k \in {"cmp", "bin", "del", "bool", "call"} |->
                    IF k \in {"cmp", "bin"} THEN 44 ELSE 4]      \* hundredths

RECURSIVE SumWeights(_, _)
SumWeights(kinds, n) == IF n = 0 THEN 0 ELSE base_weights[kinds[n]] + SumWeights(kinds, n - 1)

\* random.choices(kinds, weights): bisect of the cumulative normalised weights
\* at random() * total, bounded by len(kinds) - 1.  u is random() in hundredths.
choices(kinds, u) ==
    LET n == Len(kinds)
        s == SumWeights(kinds, n)
    IN kinds[1 + Cardinality({k \in 1..(n - 1) : SumWeights(kinds, k) * 100 <= u * s})]

\* random.randint(0, n - 1): a value of 0..n-1 fixed by the generator state w.
\* (variant: randint(0, n), the upper end included)
randint0_inclusive(n, w) == w % (n + 1)

randint0(n, w) == w % n

Avail(c) ==
    [k \in {"cmp", "bin", "del", "bool", "call"} |->
        CASE k = "cmp" -> Len(c.cmp_sites)
          [] k = "bin" -> Len(c.bin_sites)
          [] k = "del" -> Len(c.del_sites)
          [] k = "bool" -> Len(c.bool_sites)
          [] k = "call" -> Len(c.call_sites)]

\* (variant: the engine reseeds, so the draws depend on the invocation)
choose_plan_reseeding(counts, r) ==
    LET kinds == SelectSeq(Kinds, LAMBDA k : counts[k] > 0)
    IN IF kinds = <<>> THEN EmptyPlan
       ELSE LET chosen_kind == choices(kinds, r.u)
                idx == randint0(counts[chosen_kind], r.w + run)
            IN chosen_kind :> {idx}

choose_plan(counts, r) ==
    LET kinds == SelectSeq(Kinds, LAMBDA k : counts[k] > 0)
    IN IF kinds = <<>> THEN EmptyPlan
       ELSE LET chosen_kind == choices(kinds, r.u)
                idx == randint0(counts[chosen_kind], r.w)
            IN chosen_kind :> {idx}

\* ---------------------------------------------------------------- pass 2
NewMutator(the_plan, first_def_names, cmp_keys) ==
    [plan |-> the_plan, first_def_names |-> first_def_names, cmp_keys |-> cmp_keys,
     seen_cmp |-> 0, seen_bin |-> 0, seen_del |-> 0, seen_bool |-> 0, seen_call |-> 0]

\* (variant: the index test written as "reached", not "equal")
PlannedFrom(m, kind, seen) == kind \in DOMAIN m.plan /\ \E n \in m.plan[kind] : seen >= n

Planned(m, kind, seen) == kind \in DOMAIN m.plan /\ seen \in m.plan[kind]

RECURSIVE MutOps(_, _, _, _, _)
MutOps(base, m, node, path, i) ==
    IF i > Len(node.ops) THEN [node |-> node, m |-> m]
    ELSE IF node.ops[i] \in DOMAIN CMP_NEGATION /\ <<Id(base, path), i>> \in m.cmp_keys
    THEN MutOps(base, [m EXCEPT !.seen_cmp = @ + 1],
                IF Planned(m, "cmp", m.seen_cmp)
                THEN [node EXCEPT !.ops[i] = CMP_NEGATION[node.ops[i]]]
                ELSE node,
                path, i + 1)
    ELSE MutOps(base, m, node, path, i + 1)

\* (variant: no first-definition check)
maybe_delete_stmt_unguarded(m, node) ==
    LET selected == Planned(m, "del", m.seen_del)
        m1 == [m EXCEPT !.seen_del = @ + 1]
    IN IF ~selected THEN [node |-> node, m |-> m1]
       ELSE [node |-> Pass, m |-> m1]

maybe_delete_stmt(m, node) ==
    LET selected == Planned(m, "del", m.seen_del)
        m1 == [m EXCEPT !.seen_del = @ + 1]
    IN IF ~selected THEN [node |-> node, m |-> m1]
       ELSE IF names_defined_by_assign_stmt(node) \cap m.first_def_names # {}
       THEN [node |-> node, m |-> m1]
       ELSE [node |-> Pass, m |-> m1]

MutSwapBin(m, node) ==
    IF node.ops[1] \in DOMAIN BIN_SWAP
    THEN [node |-> IF Planned(m, "bin", m.seen_bin)
                   THEN [node EXCEPT !.ops[1] = BIN_SWAP[node.ops[1]]] ELSE node,
          changed |-> Planned(m, "bin", m.seen_bin),
          m |-> [m EXCEPT !.seen_bin = @ + 1]]
    ELSE [node |-> node, changed |-> FALSE, m |-> m]

MutFlipTest(m, node) ==
    IF IsBoolConst(node.kids[1])
    THEN [node |-> IF Planned(m, "bool", m.seen_bool)
                   THEN [node EXCEPT !.kids[1] =
                            Const(IF node.kids[1].id = "True" THEN "False" ELSE "True")]
                   ELSE node,
          m |-> [m EXCEPT !.seen_bool = @ + 1]]
    ELSE [node |-> node, m |-> m]

MutSwapCall(m, node) ==
    IF node.kids[1].kind = "Name" /\ node.kids[1].id \in DOMAIN CALL_SWAP
    THEN [node |-> IF Planned(m, "call", m.seen_call)
                   THEN [node EXCEPT !.kids[1].id = CALL_SWAP[node.kids[1].id]]
                   ELSE node,
          m |-> [m EXCEPT !.seen_call = @ + 1]]
    ELSE [node |-> node, m |-> m]

\* What visit_X does with a node once generic_visit has returned it (g.node).
MutApply(base, g, kind, path) ==
    CASE kind = "Compare" -> MutOps(base, g.m, g.node, path, 1)
      [] kind = "BinOp" ->
            LET b == MutSwapBin(g.m, g.node) IN [node |-> b.node, m |-> b.m]
      [] kind = "AugAssign" ->
            LET b == MutSwapBin(g.m, g.node)
            IN IF ~b.changed THEN maybe_delete_stmt(b.m, b.node)
               ELSE [node |-> b.node, m |-> b.m]
      [] kind \in {"Assign", "AnnAssign"} -> maybe_delete_stmt(g.m, g.node)
      [] kind = "Expr" ->
            IF g.node.kids[1].kind = "Call" THEN maybe_delete_stmt(g.m, g.node) ELSE g
      [] kind \in {"If", "While"} -> MutFlipTest(g.m, g.node)
      [] kind = "Call" -> MutSwapCall(g.m, g.node)
      [] OTHER -> g

\* NodeTransformer with visit_X methods that call generic_visit first: the
\* children are handled, in field order, before the node itself.
RECURSIVE PostOrder(_, _)
RECURSIVE PostOrderKids(_, _, _)
PostOrder(n, p) == PostOrderKids(n, p, 1) \o <<p>>
PostOrderKids(n, p, k) ==
    IF k > Len(n.kids) THEN <<>>
    ELSE PostOrder(n.kids[k], Append(p, k)) \o PostOrderKids(n, p, k + 1)

\* The tree with the node at path replaced (the tree is edited in place).
RECURSIVE SetAt(_, _, _)
SetAt(root, path, node) ==
    IF path = <<>> THEN node
    ELSE [root EXCEPT !.kids[Head(path)] = SetAt(@, Tail(path), node)]

\* One visit of Mutator, on the state s = [node |-> the tree, m |-> the Mutator].
MutStep(base, s, path) ==
    LET node == NodeAt(s.node, path)
        r == MutApply(base, [node |-> node, m |-> s.m], node.kind, path)
    IN [node |-> SetAt(s.node, path, r.node), m |-> r.m]

RECURSIVE MutVisits(_, _, _, _, _)
MutVisits(base, s, order, lo, hi) ==
    IF lo > hi \/ DOMAIN s = {} THEN s
    ELSE IF lo = hi THEN MutStep(base, s, order[lo])
    ELSE LET mid == (lo + hi) \div 2
         IN MutVisits(base, MutVisits(base, s, order, lo, mid), order, mid + 1, hi)

MutVisit(base, m, t) ==
    LET order == PostOrder(t, <<>>)
    IN MutVisits(base, [node |-> t, m |-> m], order, 1, Len(order))

\* ---------------------------------------------------------------- initial values
UDraws == {0, 45, 89, 93, 97}
Rngs == [u : UDraws, w : 0..(MaxW - 1)]
ZeroAvail == [k \in {"cmp", "bin", "del", "bool", "call"} |-> 0]

EngineIdle ==
    /\ tree = Module(<<>>) /\ rng = [u |-> 0, w |-> 0] /\ run = 1 /\ pc = "idle"
    /\ counter = <<>> /\ plan = EmptyPlan /\ mutator = <<>> /\ out = <<>> /\ prev = <<>>

DriverIdle ==
    /\ dpc = "idle" /\ di = 0 /\ files = {} /\ attempted = <<{}, {}>>
    /\ kills = <<>> /\ behaviour = <<>> /\ mutant_result = <<>>
    /\ tests_selectively_killed = {}

\* ---------------------------------------------------------------- mutate()
\* driver.py: tree_copy = copy.deepcopy(tree); random.seed(i); mutate(tree_copy)
Init ==
    /\ \/ \E body \in Bodies : tree = Program(body)
       \/ tree = F05
    /\ rng \in Rngs
    /\ run = 1
    /\ pc = "pass1"
    /\ counter = <<>> /\ plan = EmptyPlan /\ mutator = <<>> /\ out = <<>> /\ prev = <<>>
    /\ avail = ZeroAvail
    /\ DriverIdle

Pass1 ==
    /\ pc = "pass1"
    /\ counter' = <<CandidateCounter(tree, run)>>
    /\ pc' = "plan"
    /\ UNCHANGED <<tree, rng, run, plan, mutator, out, prev, avail>>
    /\ UNCHANGED driverVars

Plan ==
    /\ pc = "plan"
    /\ avail' = Avail(counter[1])
    /\ plan' = choose_plan(avail', rng)
    /\ pc' = "planned"
    /\ UNCHANGED <<tree, rng, run, counter, mutator, out, prev>>
    /\ UNCHANGED driverVars

ReturnUnchanged ==
    /\ pc = "planned"
    /\ plan = EmptyPlan
    /\ out' = <<tree>>
    /\ pc' = "done"
    /\ UNCHANGED <<tree, rng, run, counter, plan, mutator, prev, avail>>
    /\ UNCHANGED driverVars

Rewrite(c, p, t, base) ==
    MutVisit(base, NewMutator(p, c.first_def_names, c.cmp_keys), t)

\* (variant: mutate() without its early return on an empty plan)
Pass2Unguarded ==
    /\ pc = "planned"
    /\ LET r == Rewrite(counter[1], plan, tree, run)
       IN /\ mutator' = <<r.m>>
          /\ out' = <<r.node>>
    /\ pc' = "done"
    /\ UNCHANGED <<tree, rng, run, counter, plan, prev, avail>>
    /\ UNCHANGED driverVars

Pass2 ==
    /\ pc = "planned"
    /\ plan # EmptyPlan
    /\ LET r == Rewrite(counter[1], plan, tree, run)
       IN /\ mutator' = <<r.m>>
          /\ out' = <<r.node>>
    /\ pc' = "done"
    /\ UNCHANGED <<tree, rng, run, counter, plan, prev, avail>>
    /\ UNCHANGED driverVars

\* The driver is run again: the same tree is parsed, copied afresh and mutated
\* under the same seed.
Again ==
    /\ pc = "done"
    /\ run = 1
    /\ run' = 2
    /\ prev' = out
    /\ pc' = "pass1"
    /\ counter' = <<>> /\ plan' = EmptyPlan /\ mutator' = <<>> /\ out' = <<>>
    /\ avail' = ZeroAvail
    /\ UNCHANGED <<tree, rng>>
    /\ UNCHANGED driverVars

Next == Pass1 \/ Plan \/ ReturnUnchanged \/ Pass2

Spec == Init /\ [][Next]_vars

\* mutate() invoked, and invoked once more on the same input under the same seed.
RepeatNext == Next \/ Again

RepeatSpec == Init /\ [][RepeatNext]_vars

\* ---------------------------------------------------------------- subject.py f05 on (7, 8)
RECURSIVE EvalExpr(_, _)
EvalExpr(e, env) ==
    CASE e.kind = "Name" -> env[e.id]
      [] e.kind = "Constant" -> 0
      [] e.kind = "Call" ->
            LET a == EvalExpr(e.kids[2], env)
                b == EvalExpr(e.kids[3], env)
            IN IF e.kids[1].id = "min" THEN (IF a <= b THEN a ELSE b)
               ELSE (IF a >= b THEN a ELSE b)

ArithOp(op, a, b) ==
    CASE op = "Add" -> a + b
      [] op = "Sub" -> a - b
      [] op = "Mult" -> a * b
      [] op = "FloorDiv" -> a \div b

RECURSIVE Exec(_, _, _)
Exec(body, k, env) ==
    IF k > Len(body) THEN 0
    ELSE CASE body[k].kind = "Return" -> EvalExpr(body[k].kids[1], env)
           [] body[k].kind = "AugAssign" ->
                Exec(body, k + 1,
                     [env EXCEPT ![body[k].kids[1].id] =
                        ArithOp(body[k].ops[1], @, EvalExpr(body[k].kids[2], env))])
           [] OTHER -> Exec(body, k + 1, env)

\* driver.py test ("f05", 7, 8) on the module t
TestF05(t) == Exec(Tail(t.kids[1].kids), 1, [n \in {"i", "j"} |-> IF n = "i" THEN 7 ELSE 8])

\* ---------------------------------------------------------------- reading a result
Range(s) == {s[k] : k \in 1..Len(s)}

\* The topmost nodes at which two trees differ.
RECURSIVE DiffPaths(_, _, _)
DiffPaths(a, b, p) ==
    IF a.kind # b.kind \/ a.id # b.id \/ a.ops # b.ops \/ Len(a.kids) # Len(b.kids)
    THEN {p}
    ELSE UNION {DiffPaths(a.kids[k], b.kids[k], Append(p, k)) : k \in 1..Len(a.kids)}

Diff == DiffPaths(tree, out[1], <<>>)

ParentPath(p) == SubSeq(p, 1, Len(p) - 1)
Relational == {"Eq", "NotEq", "Lt", "LtE", "Gt", "GtE"}
Arithmetic == {"Add", "Sub", "Mult", "FloorDiv"}
DeletableKinds == {"Assign", "AnnAssign", "AugAssign", "Expr"}
ChangedOps(a, b) == {i \in 1..Len(a.ops) : a.ops[i] # b.ops[i]}

\* The category of the edit that turned node p of t into node p of o ("none" if
\* the difference is not one edit of one site).
EditKindAt(t, o, p) ==
    LET a == NodeAt(t, p)
        b == NodeAt(o, p)
        sameButOps == Len(a.ops) = Len(b.ops) /\ b = [a EXCEPT !.ops = b.ops]
    IN CASE a.kind \in DeletableKinds /\ b = Pass -> "del"
         [] a.kind = "Compare" /\ sameButOps /\ Cardinality(ChangedOps(a, b)) = 1
               /\ \A i \in ChangedOps(a, b) : a.ops[i] \in Relational /\ b.ops[i] \in Relational
               -> "cmp"
         [] a.kind \in {"BinOp", "AugAssign"} /\ sameButOps
               /\ a.ops[1] \in Arithmetic /\ b.ops[1] \in Arithmetic -> "bin"
         [] a.kind = "Constant" /\ b.kind = "Constant" /\ {a.id, b.id} = {"True", "False"}
               /\ p # <<>> /\ p[Len(p)] = 1
               /\ NodeAt(t, ParentPath(p)).kind \in {"If", "While"} -> "bool"
         [] a.kind = "Name" /\ b.kind = "Name" /\ {a.id, b.id} = {"min", "max"}
               /\ a.ops = b.ops /\ p # <<>> /\ p[Len(p)] = 1
               /\ NodeAt(t, ParentPath(p)).kind = "Call" -> "call"
         [] OTHER -> "none"

PlanKind == CHOOSE k \in DOMAIN plan : TRUE
PlanIdx == CHOOSE n \in plan[PlanKind] : TRUE

\* C1: the returned tree differs from the input in at most one node, and that
\* difference is one edit of one site of the planned category; everything else
\* (other sites of that category, all sites of the other categories) is equal.
SingleEdit ==
    pc = "done" =>
        /\ Cardinality(Diff) <= 1
        /\ \A p \in Diff : EditKindAt(tree, out[1], p) \in DOMAIN plan

SingleEditWitness ==
    /\ pc = "done"
    /\ Cardinality(Diff) = 1
    /\ avail[PlanKind] >= 2
    /\ Cardinality({k \in DOMAIN avail : avail[k] > 0}) >= 3

\* The site the catalog builder recorded under the planned index.
CataloguedSite ==
    LET c == counter[1]
        n == PlanIdx + 1
    IN CASE PlanKind = "cmp" -> c.cmp_sites[n]
         [] PlanKind = "bin" -> <<c.bin_sites[n][2], 1>>
         [] PlanKind = "del" -> <<c.del_sites[n], 0>>
         [] PlanKind = "bool" -> <<Append(c.bool_sites[n][2], 1), 0>>
         [] PlanKind = "call" -> <<Append(c.call_sites[n], 1), 0>>

\* The site at which the output differs from the input: node and operator position.
EditedSite(p) ==
    LET ch == ChangedOps(NodeAt(tree, p), NodeAt(out[1], p))
    IN IF PlanKind \in {"cmp", "bin"} /\ ch # {} THEN <<p, CHOOSE i \in ch : TRUE>>
       ELSE <<p, 0>>

\* C2: the node (and operator position) the rewriter edits under the plan
\* {category: {N}} is the one the catalog builder recorded as the N-th site of
\* that category.
IndexAlignment ==
    (pc = "done" /\ plan # EmptyPlan) =>
        \A p \in Diff : EditedSite(p) = CataloguedSite

IsPrefix(q, p) == Len(q) < Len(p) /\ SubSeq(p, 1, Len(q)) = q

ComparePaths(t) == {p \in Range(PreOrder(t, <<>>)) : NodeAt(t, p).kind = "Compare"}
LoopPaths(t) == {p \in Range(PreOrder(t, <<>>)) : NodeAt(t, p).kind \in {"For", "While"}}
LoopComparePaths(t) == {p \in ComparePaths(t) : \E q \in LoopPaths(t) : IsPrefix(q, p)}

RECURSIVE SumOver(_, _)
SumOver(S, f) ==
    IF S = {} THEN 0
    ELSE LET x == CHOOSE y \in S : TRUE IN f[x] + SumOver(S \ {x}, f)

RelationalOpsOutsideLoops(t) ==
    LET ps == ComparePaths(t) \ LoopComparePaths(t)
    IN SumOver(ps, [p \in ps |->
            Cardinality({i \in 1..Len(NodeAt(t, p).ops) : NodeAt(t, p).ops[i] \in Relational})])

\* C3: an operator of a comparison that has a for/while among its ancestors is
\* never catalogued, never counted by the rewriter and never negated.
LoopSafety ==
    pc = "done" =>
        /\ \A p \in LoopComparePaths(tree) :
              /\ \A k \in 1..Len(counter[1].cmp_sites) : counter[1].cmp_sites[k][1] # p
              /\ \A key \in counter[1].cmp_keys : key[1] # Id(run, p)
              /\ p \notin Diff
        /\ mutator # <<>> => mutator[1].seen_cmp = RelationalOpsOutsideLoops(tree)

LoopSafetyWitness ==
    /\ pc = "done"
    /\ "cmp" \in DOMAIN plan
    /\ Diff # {}
    /\ LoopComparePaths(tree) # {}

DeletablePaths(t) ==
    SelectSeq(PreOrder(t, <<>>),
              LAMBDA p : \/ NodeAt(t, p).kind \in {"Assign", "AnnAssign", "AugAssign"}
                         \/ NodeAt(t, p).kind = "Expr" /\ NodeAt(t, p).kids[1].kind = "Call")

\* The statements that assign some name no earlier statement (in traversal
\* order) assigns.
FirstDefinitions(t) ==
    LET ds == DeletablePaths(t)
    IN {ds[k] : k \in {k \in 1..Len(ds) :
            \E n \in names_defined_by_assign_stmt(NodeAt(t, ds[k])) :
                \A h \in 1..(k - 1) : n \notin names_defined_by_assign_stmt(NodeAt(t, ds[h]))}}

\* C4: a first definition is never replaced by a no-op; a deletion index that
\* lands on one leaves the tree without any edit, and the deletion counter has
\* still advanced over every deletable statement.
Guardrail ==
    (pc = "done" /\ mutator # <<>>) =>
        /\ \A p \in FirstDefinitions(tree) : NodeAt(out[1], p).kind # "Pass"
        /\ ("del" \in DOMAIN plan /\ DeletablePaths(tree)[PlanIdx + 1] \in FirstDefinitions(tree))
              => /\ out[1] = tree
                 /\ mutator[1].seen_del = Len(DeletablePaths(tree))

GuardrailWitness ==
    /\ pc = "done"
    /\ "del" \in DOMAIN plan
    /\ DeletablePaths(tree)[PlanIdx + 1] \in FirstDefinitions(tree)
    /\ PlanIdx + 1 < Len(DeletablePaths(tree))
    /\ Range(DeletablePaths(tree)) \ FirstDefinitions(tree) # {}

\* C5: with the deletion index of `i += j` planned on f05, the statement becomes
\* a no-op and the mutant's result on (7, 8) differs from the original's.
ScenarioC ==
    (pc = "done" /\ tree = F05 /\ "del" \in DOMAIN plan /\ PlanIdx = 0) =>
        /\ NodeAt(out[1], <<1, 2>>) = Pass
        /\ TestF05(out[1]) # TestF05(tree)

\* The assignments that assign at least one name, every one of which an earlier
\* statement (in traversal order) has already assigned.
Redefinitions(t) ==
    {p \in Range(DeletablePaths(t)) \ FirstDefinitions(t) :
        /\ NodeAt(t, p).kind \in {"Assign", "AnnAssign", "AugAssign"}
        /\ names_defined_by_assign_stmt(NodeAt(t, p)) # {}}

\* C11: a deletion index that lands on an assignment which only re-assigns names
\* already assigned by earlier statements replaces that statement with a no-op.
RedefinitionDeletable ==
    (pc = "done" /\ "del" \in DOMAIN plan
        /\ DeletablePaths(tree)[PlanIdx + 1] \in Redefinitions(tree)) =>
        NodeAt(out[1], DeletablePaths(tree)[PlanIdx + 1]) = Pass

NoSites == \A k \in DOMAIN avail : avail[k] = 0

\* C7: with no site in any category mutate() returns the input tree unchanged
\* and constructs no rewriter.
NoOpStability ==
    /\ (pc = "planned" /\ NoSites) => plan = EmptyPlan
    /\ (pc = "done" /\ NoSites) => (mutator = <<>> /\ out = <<tree>>)

NoOpStabilityWitness == pc = "done" /\ NoSites /\ counter # <<>> /\ out = <<tree>>

\* C10: a repeated invocation on an equal tree under the same seed returns the
\* tree the first invocation returned.
Determinism == (pc = "done" /\ run = 2) => out = prev

DeterminismWitness == pc = "done" /\ run = 2 /\ out = prev /\ out # <<tree>>

\* ---------------------------------------------------------------- _choose_plan alone
PlanUDraws == UDraws \cup {u \in 0..99 : u % 4 = 3}
PlanRngs == [u : PlanUDraws, w : 0..(MaxW - 1)]

PlanInit ==
    /\ avail \in [{"cmp", "bin", "del", "bool", "call"} -> 0..MaxCount]
    /\ rng \in PlanRngs
    /\ pc = "choose"
    /\ tree = Module(<<>>) /\ run = 1
    /\ counter = <<>> /\ plan = EmptyPlan /\ mutator = <<>> /\ out = <<>> /\ prev = <<>>
    /\ DriverIdle

ChoosePlan ==
    /\ pc = "choose"
    /\ plan' = choose_plan(avail, rng)
    /\ pc' = "chosen"
    /\ UNCHANGED <<tree, rng, run, counter, mutator, out, prev, avail>>
    /\ UNCHANGED driverVars

PlanNext == ChoosePlan

PlanSpec == PlanInit /\ [][PlanNext]_vars

\* C8: the plan is empty exactly when every count is zero; otherwise it names
\* one category, which has sites, and one index of 0..count-1.
PlanShape ==
    pc = "chosen" =>
        /\ plan = EmptyPlan <=> \A k \in DOMAIN avail : avail[k] = 0
        /\ plan # EmptyPlan =>
              /\ Cardinality(DOMAIN plan) = 1
              /\ \A k \in DOMAIN plan :
                    /\ k \in DOMAIN avail
                    /\ avail[k] > 0
                    /\ Cardinality(plan[k]) = 1
                    /\ \A idx \in plan[k] : 0 <= idx /\ idx <= avail[k] - 1

PlanShapeWitness ==
    /\ pc = "chosen"
    /\ avail["cmp"] = 0 /\ avail["bin"] = 0 /\ avail["bool"] = 0
    /\ avail["del"] = MaxCount
    /\ plan = ("del" :> {MaxCount - 1})

\* ---------------------------------------------------------------- driver.py
Tests == 1..MaxTests
Mutants == 0..(MaxMutants - 1)
Behaviours == {"equal", "different", "raises", "timeout"}

\* (variant: FunctionTimedOut taken for a subclass of Exception)
MatchesTimeoutToo(exc, clause) ==
    \/ exc = clause
    \/ clause = "Exception"

\* Whether an except clause matches the exception raised: the errors a mutant
\* raises derive from Exception, FunctionTimedOut derives from BaseException.
Matches(exc, clause) ==
    \/ exc = clause
    \/ exc = "ZeroDivisionError" /\ clause = "Exception"

\* driver.py lines 76-86: the except clauses, in order.
Catch(exc) ==
    IF Matches(exc, "Exception") THEN "exceptional_result"
    ELSE IF Matches(exc, "FunctionTimedOut") THEN "timed_out"
    ELSE "propagates"

\* driver.py lines 72-86: the guarded call of the mutant on one test.
MutantResult(b) ==
    CASE b = "equal" -> "original_result"
      [] b = "different" -> "other_result"
      [] b = "raises" -> Catch("ZeroDivisionError")
      [] b = "timeout" -> Catch("FunctionTimedOut")

TestsKilled(results) == {t \in DOMAIN results : results[t] # "original_result"}

\* (variant: any mutant that kills something counts)
SelectivelyKilledAny(found, tests_killed) ==
    IF Cardinality(tests_killed) >= 1 THEN found \cup tests_killed ELSE found

\* driver.py lines 97-101
SelectivelyKilled(found, tests_killed) ==
    IF Cardinality(tests_killed) = 1 THEN found \cup tests_killed ELSE found

DriverInit ==
    /\ dpc = "gen" /\ di = 0 /\ files = {} /\ attempted = <<{}, {}>>
    /\ kills = <<>> /\ behaviour = <<>> /\ mutant_result = <<>>
    /\ tests_selectively_killed = {}
    /\ EngineIdle
    /\ avail = ZeroAvail

Advance(next) ==
    IF di + 1 < MaxMutants THEN di' = di + 1 /\ dpc' = dpc
    ELSE di' = 0 /\ dpc' = next

\* Step 1, one iteration: the mutant file is written, or the attempt raises and
\* the except clause reports it.
Generate ==
    /\ dpc = "gen"
    /\ \E ok \in BOOLEAN : files' = IF ok THEN files \cup {di} ELSE files
    /\ attempted' = [attempted EXCEPT ![1] = @ \cup {di}]
    /\ Advance("test")
    /\ UNCHANGED <<kills, behaviour, mutant_result, tests_selectively_killed>>
    /\ UNCHANGED engineVars /\ UNCHANGED avail

\* Step 2, one iteration in which run_tests_on_python_file returns.
RunTests ==
    /\ dpc = "test"
    /\ di \in files
    /\ \E b \in [Tests -> Behaviours] :
          /\ behaviour' = b
          /\ mutant_result' = [t \in Tests |-> MutantResult(b[t])]
          /\ kills' = (di :> TestsKilled(mutant_result')) @@ kills
          /\ tests_selectively_killed' =
                SelectivelyKilled(tests_selectively_killed, TestsKilled(mutant_result'))
    /\ attempted' = [attempted EXCEPT ![2] = @ \cup {di}]
    /\ Advance("report")
    /\ UNCHANGED files
    /\ UNCHANGED engineVars /\ UNCHANGED avail

\* Step 2, one iteration in which run_tests_on_python_file raises (the mutant
\* file is missing or cannot be loaded) and the except clause passes.
RunTestsRaises ==
    /\ dpc = "test"
    /\ attempted' = [attempted EXCEPT ![2] = @ \cup {di}]
    /\ Advance("report")
    /\ UNCHANGED <<files, kills, behaviour, mutant_result, tests_selectively_killed>>
    /\ UNCHANGED engineVars /\ UNCHANGED avail

\* Step 3
Report ==
    /\ dpc = "report"
    /\ dpc' = "done"
    /\ UNCHANGED <<di, files, attempted, kills, behaviour, mutant_result,
                   tests_selectively_killed>>
    /\ UNCHANGED engineVars /\ UNCHANGED avail

DriverNext == Generate \/ RunTests \/ RunTestsRaises \/ Report

\* The harness is one sequential process: a step that can be taken is taken.
DriverSpec == DriverInit /\ [][DriverNext]_vars /\ WF_vars(DriverNext)

KilledBy(t) == {i \in DOMAIN kills : t \in kills[i]}

\* C6 as stated: the reported set is the set of tests killed by exactly one
\* mutant of the batch.
KilledByExactlyOneMutant ==
    dpc = "done" =>
        tests_selectively_killed = {t \in Tests : Cardinality(KilledBy(t)) = 1}

\* C6 as the harness computes it: the reported set is the set of tests that some
\* mutant, run to completion, killed without killing any other test.
KilledAloneBySomeMutant ==
    dpc = "done" =>
        tests_selectively_killed = {t \in Tests : \E i \in DOMAIN kills : kills[i] = {t}}

KilledAloneWitness ==
    /\ dpc = "done"
    /\ \E t \in Tests :
          /\ t \in tests_selectively_killed
          /\ Cardinality(KilledBy(t)) >= 2
    /\ \E t \in Tests :
          /\ t \notin tests_selectively_killed
          /\ Cardinality(KilledBy(t)) = 1

\* C9: a raising mutant call yields 'exceptional_result', a timed-out one
\* 'timed_out', each a kill; every mutant is attempted in both steps whatever
\* fails, and the report is always reached.
LastRun == CHOOSE i \in DOMAIN kills : \A j \in DOMAIN kills : j <= i

SentinelOutcomes ==
    \A t \in DOMAIN behaviour :
        /\ behaviour[t] = "raises" => mutant_result[t] = "exceptional_result"
        /\ behaviour[t] = "timeout" => mutant_result[t] = "timed_out"
        /\ behaviour[t] \in {"raises", "timeout"} => t \in kills[LastRun]

AllAttempted == dpc \in {"report", "done"} => attempted = <<Mutants, Mutants>>

FailureIsolation == [](SentinelOutcomes /\ AllAttempted) /\ <>(dpc = "done")

FailureIsolationWitness ==
    /\ dpc = "done"
    /\ files # Mutants
    /\ DOMAIN kills # Mutants
    /\ \E t \in DOMAIN behaviour : behaviour[t] = "raises"
    /\ \E t \in DOMAIN behaviour : behaviour[t] = "timeout"

====
